---- MODULE Spec2Model ----
\* A model of the paged file store (PagedFile, PageBlock, Page, PagedBufferFacade).
\* The PagedFile object is one record value `pf`; every method is an operator
\* from a PagedFile record to the PagedFile record after the call. An exception
\* is the field `err`: once set, the rest of the call is skipped and the
\* mutations made before the throw stay, as in the code.
EXTENDS Integers, Sequences, FiniteSets, TLC

\* ------------------------------------------------------------------ bounds

\* Bytes of one raw page (a scaled-down pageSize; the header sizes are the code's).
PageSize == 11
\* memoryPageCount never grows beyond this (guard of every call).
MaxPages == 4
\* Calls made on one store in one behaviour.
MaxCalls == 5
\* Calls made in one behaviour of the write-only specification.
MaxWriteCalls == 7
\* Calls made in one behaviour of the two stores run side by side.
MaxTwinCalls == 5
\* Calls made in one behaviour of the store with typed pages.
MaxTypedCalls == 5
\* Calls made in one behaviour of the store with two managers.
MaxHandleCalls == 4
\* Calls made in one behaviour of the store opened on another store's file.
MaxForeignCalls == 3
\* Calls made in one behaviour of the store that holds as many pages as a
\* 16-bit address can name.
MaxLargeCalls == 3
\* Largest cacheSize a store is opened with.
MaxCache == 1
\* Pages created in the first batch of the space-reuse scenario.
MaxBatch == 4

\* ------------------------------------------------------------------ page blocks

Empty == 0
Root == 1
Emptylist == 2
Data == 3
Entry == 4

\* byte sizes: the type byte, one uint16 header field
TypeByteSize == 1
Uint16Size == 2

\* Block.uint16 writes the two low bytes of a number
Uint16Max == 65535
Uint16(val) == val % (Uint16Max + 1)

RootHeaderSize == 3 * Uint16Size
EmptylistHeaderSize == 3 * Uint16Size
DataHeaderSize == 2 * Uint16Size

RootContentLength == PageSize - TypeByteSize - RootHeaderSize
DataContentLength == PageSize - TypeByteSize - DataHeaderSize
EmptylistCapacity == (PageSize - TypeByteSize - EmptylistHeaderSize) \div Uint16Size

Zeros(n) == [i \in 1..n |-> 0]

\* More pages than any store of the model holds: a walk of the links that takes
\* more steps than this is in a cycle and, in the code, never ends.
Fuel == 2 * (MaxPages + 2 * MaxBatch)

\* the absent page reference (PageInfo null, a null manager, a null page type)
Null == 0 - 1
NoErr == "ok"

\* A raw page, decoded. A page of all zero bytes is the Empty page; every kind
\* reads its own header fields and the rest of the buffer (content or slots).
ZeroBuffer(type) ==
  [type |-> type, dirty |-> TRUE, pageSize |-> 0, emptylistAddr |-> 0,
   prevPage |-> 0, nextPage |-> 0, count |-> 0,
   slots |-> IF type = Emptylist THEN Zeros(EmptylistCapacity) ELSE << >>,
   content |-> IF type = Root THEN Zeros(RootContentLength)
               ELSE IF type >= Data THEN Zeros(DataContentLength) ELSE << >>]

EmptyPageBlock == ZeroBuffer(Empty)

\* a root page whose pageSize field was never stamped
RootPageBlockBlank == ZeroBuffer(Root)

\* new RootPageBlock(pageSize, buffer, isDirty = true) stamps the pageSize
RootPageBlockNew == [ZeroBuffer(Root) EXCEPT !.pageSize = PageSize]

contentLength(b) == Len(b.content)

ensureTypeMatch(expectedType, actualType) ==
  IF expectedType = Null THEN actualType >= Entry ELSE actualType = expectedType

\* entry subtypes run from 0 to MaxSubtype; the kind byte is Entry + subtype
MaxSubtype == 251

entryPageTypeToPageBlockType(pageType) == Entry + pageType

\* the subtypes entryPageTypeToPageBlockType throws on
rejectsPageType(pageType) == pageType < 0 \/ pageType > MaxSubtype

\* ------------------------------------------------------------------ the store

Throw(s, e) == [s EXCEPT !.err = e]
Ok(s) == s.err = NoErr

\* new PagedFile(path, {pageSize, cacheSize}) over the host file `file`
\* a constructor that does not count the root of an empty file
PagedFileNewUncounted(file, cacheSize) ==
  [file |-> file,
   cacheSize |-> cacheSize,
   isClosed |-> FALSE,
   filePageCount |-> Len(file),
   memoryPageCount |-> Len(file),
   blockCache |-> << >>,
   lru |-> << >>,
   pageCache |-> << >>,
   closedPages |-> << >>,
   err |-> "ok",
   v |-> 0,
   ret |-> << >>,
   allocated |-> << >>]

PagedFileNew(file, cacheSize) ==
  [file |-> file,
   cacheSize |-> cacheSize,
   isClosed |-> FALSE,
   filePageCount |-> Len(file),
   memoryPageCount |-> IF Len(file) = 0 THEN 1 ELSE Len(file),
   blockCache |-> << >>,
   lru |-> << >>,
   pageCache |-> << >>,
   closedPages |-> << >>,
   err |-> NoErr,
   v |-> 0,
   ret |-> << >>,
   allocated |-> << >>]

\* LeastRecentlyUsedMap: lru lists the keys oldest first
Without(seq, a) == SelectSeq(seq, LAMBDA x : x # a)

LruGet(s, a) ==
  IF a \in DOMAIN s.blockCache THEN [s EXCEPT !.lru = Append(Without(s.lru, a), a)] ELSE s

LruSet(s, a, b) ==
  [s EXCEPT !.blockCache = (a :> b) @@ s.blockCache,
            !.lru = Append(Without(s.lru, a), a)]

LruDelete(s, a) ==
  [s EXCEPT !.blockCache = [x \in (DOMAIN s.blockCache) \ {a} |-> s.blockCache[x]],
            !.lru = Without(s.lru, a)]

\* PageBlock.close() of the block cached at addr: every Page that holds this
\* block object in its internalPageCache now sees it closed.
DropRefs(s, addr) ==
  [s EXCEPT !.pageCache =
     [h \in DOMAIN s.pageCache |->
        [s.pageCache[h] EXCEPT !.refs =
           (@ \ {addr}) \ (IF h = addr THEN {Null} ELSE {})]],
            !.closedPages =
     [h \in DOMAIN s.closedPages |->
        [s.closedPages[h] EXCEPT !.refs =
           (@ \ {addr}) \ (IF h = addr THEN {Null} ELSE {})]]]

\* a read from the file that loses the content of the page
readPageBufferBlank(s, pageAddr) ==
  IF pageAddr + 1 <= Len(s.file)
    THEN [s.file[pageAddr + 1] EXCEPT !.content = Zeros(Len(@))]
    ELSE EmptyPageBlock

readPageBuffer(s, pageAddr) ==
  IF pageAddr + 1 <= Len(s.file) THEN s.file[pageAddr + 1] ELSE EmptyPageBlock

\* getPageBuffer + instantiatePageBlock: [err, block]
getPageBuffer(s, pageAddr, expectedType, mustExist) ==
  LET isOnFile == pageAddr < s.filePageCount
      typeResolved == IF expectedType = Null THEN Entry ELSE expectedType
      fresh == IF typeResolved = Root THEN RootPageBlockNew ELSE ZeroBuffer(typeResolved)
      buffer == readPageBuffer(s, pageAddr)
  IN  IF pageAddr >= s.memoryPageCount THEN [err |-> "What ?", block |-> EmptyPageBlock]
      ELSE IF ~isOnFile /\ mustExist THEN [err |-> "Range exceeded", block |-> EmptyPageBlock]
      ELSE IF isOnFile
        THEN IF buffer.type = Empty
               THEN [err |-> NoErr, block |-> fresh]
             ELSE IF ~ensureTypeMatch(expectedType, buffer.type)
               THEN [err |-> "Page type mismatch", block |-> EmptyPageBlock]
             ELSE IF buffer.type = Root /\ buffer.pageSize # PageSize
               THEN [err |-> "Page size mismatch", block |-> EmptyPageBlock]
             ELSE [err |-> NoErr, block |-> [buffer EXCEPT !.dirty = FALSE]]
      ELSE [err |-> NoErr, block |-> fresh]

\* ------------------------------------------------------------------ calls

\* A call of a method: f_(args) is f(args), evaluated through Do, the one
\* recursive operator every method is reached from.
RECURSIVE Do(_, _)

getPageBlock_(s, pageAddr, expectedType, mustExist) == Do("getPageBlock", <<s, pageAddr, expectedType, mustExist>>)
getRootPageBlock_(s) == Do("getRootPageBlock", <<s>>)
getEntryPageBlock_(s, addr, expectedType, mustExist) == Do("getEntryPageBlock", <<s, addr, expectedType, mustExist>>)
getDataPageBlock_(s, addr, mustExist) == Do("getDataPageBlock", <<s, addr, mustExist>>)
getEmptylistPageBlock_(s, addr, mustExist) == Do("getEmptylistPageBlock", <<s, addr, mustExist>>)
getInternalRootOrEntry_(s, addr, expectedType) == Do("getInternalRootOrEntry", <<s, addr, expectedType>>)
followEmptylist_(s, addr, fuel) == Do("followEmptylist", <<s, addr, fuel>>)
getLastEmptylistPage_(s) == Do("getLastEmptylistPage", <<s>>)
pop_(s, addr) == Do("pop", <<s, addr>>)
getEmptyPageAddr_(s) == Do("getEmptyPageAddr", <<s>>)
addAddrToEmptylist_(s, addr) == Do("addAddrToEmptylist", <<s, addr>>)
deleteDataPageBlock_(s, addr, fuel) == Do("deleteDataPageBlock", <<s, addr, fuel>>)
deletePageBlock_(s, addr, type) == Do("deletePageBlock", <<s, addr, type>>)
PageGetPage_(s, h, key, mustExists) == Do("PageGetPage", <<s, h, key, mustExists>>)
getNextPage_(s, h, prevPage, mode) == Do("getNextPage", <<s, h, prevPage, mode>>)
deleteNextPage_(s, prevPage) == Do("deleteNextPage", <<s, prevPage>>)
byteLengthLoop_(s, h, pageInfo, size, fuel) == Do("byteLengthLoop", <<s, h, pageInfo, size, fuel>>)
byteLength_(s, h) == Do("byteLength", <<s, h>>)
readLoop_(s, h, pageInfo, skipRest, readRest, result, fuel) == Do("readLoop", <<s, h, pageInfo, skipRest, readRest, result, fuel>>)
unsafeAccess_(s, h, start, length) == Do("unsafeAccess", <<s, h, start, length>>)
writeLoop_(s, h, pageInfo, skipRest, writeRest, cleanup, fuel) == Do("writeLoop", <<s, h, pageInfo, skipRest, writeRest, cleanup, fuel>>)
writeInternal_(s, h, content, offset, cleanup) == Do("writeInternal", <<s, h, content, offset, cleanup>>)
PageRead_(s, h, start, length) == Do("PageRead", <<s, h, start, length>>)
PageWrite_(s, h, content, offset) == Do("PageWrite", <<s, h, content, offset>>)
PageWriteAndCleanup_(s, h, content, offset) == Do("PageWriteAndCleanup", <<s, h, content, offset>>)
PageDelete_(s, h) == Do("PageDelete", <<s, h>>)
instantiatePage_(s, addr, manager) == Do("instantiatePage", <<s, addr, manager>>)
getPageFromCache_(s, manager, addr, expectedType) == Do("getPageFromCache", <<s, manager, addr, expectedType>>)
getRootPageForManager_(s, manager) == Do("getRootPageForManager", <<s, manager>>)
getPageForManager_(s, manager, addr, pageType) == Do("getPageForManager", <<s, manager, addr, pageType>>)
createPageForManager_(s, manager, pageType) == Do("createPageForManager", <<s, manager, pageType>>)
PageByteLength_(s, h) == Do("PageByteLength", <<s, h>>)
PageDeleteOpen_(s, h) == Do("PageDeleteOpen", <<s, h>>)
ClosedPageCall_(s, h, method) == Do("ClosedPageCall", <<s, h, method>>)
getRootPage_(s) == Do("getRootPage", <<s>>)
getPage_(s, addr, pageType) == Do("getPage", <<s, addr, pageType>>)
createPage_(s, pageType) == Do("createPage", <<s, pageType>>)
deletePage_(s, addr, pageType) == Do("deletePage", <<s, addr, pageType>>)
save_(s) == Do("save", <<s>>)
close_(s) == Do("close", <<s>>)
Apply_(s, o) == Do("Apply", <<s, o>>)
ReadHead_(s, a) == Do("ReadHead", <<s, a>>)

\* getPageBlock: afterwards the block is blockCache[pageAddr]
getPageBlock(s, pageAddr, expectedType, mustExist) ==
  IF ~Ok(s) THEN s
  ELSE IF pageAddr \in DOMAIN s.blockCache
    THEN LET t == LruGet(s, pageAddr)
             cached == s.blockCache[pageAddr]
             typeResolved == IF expectedType = Null THEN Entry ELSE expectedType
         IN  IF cached.type = Empty
               THEN LruSet(t, pageAddr,
                           IF typeResolved = Root THEN RootPageBlockNew
                           ELSE ZeroBuffer(typeResolved))
             ELSE IF ~ensureTypeMatch(expectedType, cached.type)
               THEN Throw(t, "Page type mismatch")
             ELSE t
  ELSE LET r == getPageBuffer(s, pageAddr, expectedType, mustExist)
       IN  IF r.err # NoErr THEN Throw(s, r.err) ELSE LruSet(s, pageAddr, r.block)

getRootPageBlock(s) == getPageBlock_(s, 0, Root, FALSE)

getEntryPageBlock(s, addr, expectedType, mustExist) ==
  getPageBlock_(s, addr, expectedType, mustExist)

getDataPageBlock(s, addr, mustExist) ==
  IF ~Ok(s) THEN s
  ELSE IF addr = 0 THEN Throw(s, "Cannot get null pointer Data page")
  ELSE getPageBlock_(s, addr, Data, mustExist)

getEmptylistPageBlock(s, addr, mustExist) == getPageBlock_(s, addr, Emptylist, mustExist)

getInternalRootOrEntry(s, addr, expectedType) ==
  IF addr = 0 THEN getRootPageBlock_(s) ELSE getEntryPageBlock_(s, addr, expectedType, TRUE)

\* a setter of the block cached at addr: writes the buffer and marks it dirty
\* (a header field keeps the low 16 bits of the value)
SetField(s, addr, f, val) ==
  IF ~Ok(s) THEN s
  ELSE [s EXCEPT !.blockCache[addr] =
          [[@ EXCEPT ![f] = IF f \in {"content", "slots"} THEN val ELSE Uint16(val)]
             EXCEPT !.dirty = TRUE]]

emptyPageBlock(s, addr) ==
  IF ~Ok(s) THEN s ELSE LruSet(DropRefs(s, addr), addr, EmptyPageBlock)

\* ------------------------------------------------------------------ the view

\* The page at addr as the store sees it: the cached block, else the file's page.
View(s, addr) ==
  IF addr \in DOMAIN s.blockCache THEN s.blockCache[addr] ELSE readPageBuffer(s, addr)

\* free-list nodes linked from root.emptylistAddr, in order (head first)
RECURSIVE NodesFrom(_, _, _)
NodesFrom(s, addr, seen) ==
  IF addr = 0 \/ addr \in seen \/ View(s, addr).type # Emptylist THEN << >>
  ELSE << addr >> \o NodesFrom(s, View(s, addr).nextPage, seen \cup {addr})

FreelistNodes(s) ==
  IF View(s, 0).type # Root THEN << >> ELSE NodesFrom(s, View(s, 0).emptylistAddr, {})

\* the used slots of the free-list: <<node, index>> pairs
FreelistSlots(s) ==
  LET nodes == FreelistNodes(s)
  IN  UNION { { << nodes[i], k >> : k \in 1..View(s, nodes[i]).count } : i \in 1..Len(nodes) }

SlotAddr(s, slot) == View(s, slot[1]).slots[slot[2]]

FreelistAddrs(s) == { SlotAddr(s, slot) : slot \in FreelistSlots(s) }

NodeSet(s) == { FreelistNodes(s)[i] : i \in 1..Len(FreelistNodes(s)) }

\* every head page (the root, the entry pages) the store holds
Heads(s) == { a \in 0..(s.memoryPageCount - 1) :
                View(s, a).type = Root \/ View(s, a).type >= Entry }

\* the addresses reached by following nextPage from addr, through data pages
RECURSIVE ReachFrom(_, _, _)
ReachFrom(s, addr, seen) ==
  IF addr = 0 \/ addr \in seen THEN seen
  ELSE IF View(s, addr).type = Data
    THEN ReachFrom(s, View(s, addr).nextPage, seen \cup {addr})
  ELSE seen \cup {addr}

\* the overflow chain of the head h
Chain(s, h) == ReachFrom(s, View(s, h).nextPage, {})

\* a page in use: the root, an entry page, a data page linked in the overflow
\* chain of a head, a free-list node linked from the root
LivePage(s, a) ==
  \/ a = 0
  \/ View(s, a).type >= Entry
  \/ View(s, a).type = Data /\ \E h \in Heads(s) : a \in Chain(s, h)
  \/ a \in NodeSet(s)

\* ------------------------------------------------------------------ free-list and allocator

RECURSIVE followEmptylist(_, _, _)
followEmptylist(s, addr, fuel) ==
  LET t == getEmptylistPageBlock_(s, addr, TRUE)
  IN  IF ~Ok(t) THEN t
      ELSE IF t.blockCache[addr].nextPage = 0 THEN [t EXCEPT !.v = addr]
      ELSE IF fuel = 0 THEN Throw(t, "Hang")
      ELSE followEmptylist(t, t.blockCache[addr].nextPage, fuel - 1)

\* v = the address of the tail node, 0 when there is no emptylist
getLastEmptylistPage(s) ==
  LET t == getRootPageBlock_(s)
  IN  IF ~Ok(t) THEN t
      ELSE IF t.blockCache[0].emptylistAddr = 0 THEN [t EXCEPT !.v = 0]
      ELSE followEmptylist_(t, t.blockCache[0].emptylistAddr, Fuel)

\* EmptylistPageBlock.pop of the node cached at addr: v = the popped address
pop(s, addr) ==
  LET currentCount == s.blockCache[addr].count
      t == SetField(s, addr, "count", currentCount - 1)
      poped == s.blockCache[addr].slots[currentCount]
  IN  IF currentCount = 0 THEN Throw(s, "Cannot pop empty list: no addrs")
      ELSE IF poped = 0 THEN Throw(t, "Found 0 in freelist ?")
      ELSE [t EXCEPT !.v = poped]

\* EmptylistPageBlock.push
push(s, addr, a) ==
  LET currentCount == s.blockCache[addr].count
      t == SetField(s, addr, "count", currentCount + 1)
  IN  IF currentCount = EmptylistCapacity THEN Throw(s, "Cannot push into full empty list")
      ELSE SetField(t, addr, "slots",
                    [t.blockCache[addr].slots EXCEPT ![currentCount + 1] = Uint16(a)])

\* the allocator's return, with what the free-list held at that moment and
\* whether the address was in use
Returned(s, addr) ==
  [s EXCEPT !.v = addr,
            !.allocated = Append(@, [addr |-> addr, inFreelist |-> addr \in FreelistAddrs(s),
                                     live |-> LivePage(s, addr)])]

\* an allocator that always appends at the end of the store
getEmptyPageAddrAppending(s) ==
  LET t == getLastEmptylistPage_(s)
  IN  IF ~Ok(t) THEN t
      ELSE Returned([t EXCEPT !.memoryPageCount = @ + 1], t.memoryPageCount)

getEmptyPageAddr(s) ==
  LET t == getLastEmptylistPage_(s)
      tail == t.v
      node == t.blockCache[tail]
      u == emptyPageBlock(t, tail)
      r == getRootPageBlock_(u)
      p == getEmptylistPageBlock_(u, node.prevPage, TRUE)
      q == pop_(t, tail)
  IN  IF ~Ok(t) THEN t
      ELSE IF tail = 0
        THEN Returned([t EXCEPT !.memoryPageCount = @ + 1], t.memoryPageCount)
      ELSE IF node.count = 0
        THEN IF node.prevPage = 0
               THEN IF Ok(r) THEN Returned(SetField(r, 0, "emptylistAddr", 0), tail) ELSE r
             ELSE IF Ok(p) THEN Returned(SetField(p, node.prevPage, "prevPage", 0), tail) ELSE p
      ELSE IF Ok(q) THEN Returned(q, q.v) ELSE q

addAddrToEmptylist(s, addr) ==
  LET t == getLastEmptylistPage_(s)
      tail == t.v
      n == getEmptylistPageBlock_(t, addr, FALSE)
      r == getRootPageBlock_(n)
  IN  IF ~Ok(t) THEN t
      ELSE IF tail = 0
        THEN IF Ok(r) THEN SetField(r, 0, "emptylistAddr", addr) ELSE r
      ELSE IF t.blockCache[tail].count = EmptylistCapacity
        THEN SetField(n, tail, "nextPage", addr)
      ELSE push(t, tail, addr)

RECURSIVE deleteDataPageBlock(_, _, _)
deleteDataPageBlock(s, addr, fuel) ==
  IF ~Ok(s) \/ addr = 0 THEN s
  ELSE LET t == getDataPageBlock_(s, addr, TRUE)
           nextPage == t.blockCache[addr].nextPage
       IN  IF ~Ok(t) THEN t
           ELSE IF fuel = 0 THEN Throw(t, "Hang")
           ELSE deleteDataPageBlock(addAddrToEmptylist_(emptyPageBlock(t, addr), addr),
                                    nextPage, fuel - 1)

deletePageBlock(s, addr, type) ==
  LET t == getInternalRootOrEntry_(s, addr, type)
      nextPage == t.blockCache[addr].nextPage
  IN  IF ~Ok(t) THEN t
      ELSE deleteDataPageBlock_(addAddrToEmptylist_(emptyPageBlock(t, addr), addr),
                               nextPage, Fuel)

\* an eviction that does not look at the dirty flag
RECURSIVE evictAnyFromOldest(_, _, _)
evictAnyFromOldest(s, order, deleteCount) ==
  IF order = << >> \/ deleteCount <= 0 THEN s
  ELSE evictAnyFromOldest(LruDelete(DropRefs(s, Head(order)), Head(order)),
                          Tail(order), deleteCount - 1)

\* checkBlockCache: drop clean blocks, oldest first, down to cacheSize
RECURSIVE evictFromOldest(_, _, _)
evictFromOldest(s, order, deleteCount) ==
  IF order = << >> \/ deleteCount <= 0 THEN s
  ELSE IF s.blockCache[Head(order)].dirty = FALSE
    THEN evictFromOldest(LruDelete(DropRefs(s, Head(order)), Head(order)),
                         Tail(order), deleteCount - 1)
  ELSE evictFromOldest(s, Tail(order), deleteCount)

\* a trim that stops one block above the limit
checkBlockCacheLoose(s) ==
  IF Len(s.lru) <= s.cacheSize + 1 THEN s
  ELSE evictFromOldest(s, s.lru, Len(s.lru) - s.cacheSize - 1)

checkBlockCache(s) ==
  IF Len(s.lru) <= s.cacheSize THEN s
  ELSE evictFromOldest(s, s.lru, Len(s.lru) - s.cacheSize)

\* Page.close of the pages cached at the addresses hs: each leaves the page
\* cache; the closed Page object (isClosed = true) stays with whoever holds it,
\* the latest one of an address in closedPages.
ClosePages(s, hs) ==
  [s EXCEPT !.pageCache = [h \in (DOMAIN s.pageCache) \ hs |-> s.pageCache[h]],
            !.closedPages =
               [h \in (DOMAIN s.closedPages) \cup (hs \cap DOMAIN s.pageCache) |->
                  IF h \in hs \cap DOMAIN s.pageCache
                    THEN [type |-> s.pageCache[h].type, refs |-> s.pageCache[h].refs]
                    ELSE s.closedPages[h]]]

\* a release that takes the page from every manager
releasePageForAnyManager(s, manager, addr) ==
  IF addr \in DOMAIN s.pageCache
    THEN [s EXCEPT !.err = NoErr, !.ret = << >>, !.v = 0, !.allocated = << >>,
                   !.pageCache[addr].managers = {}]
    ELSE [s EXCEPT !.err = NoErr, !.ret = << >>, !.v = 0, !.allocated = << >>]

\* checkPageCache: a page no manager holds is closed
checkPageCache(s) ==
  ClosePages(s, { x \in DOMAIN s.pageCache : s.pageCache[x].managers = {} })

checkCache(s) == IF ~Ok(s) THEN s ELSE checkPageCache(checkBlockCache(s))

\* ------------------------------------------------------------------ Page

\* Page.getPage: key is Null for the head, else the address of a data page.
\* A block the page already holds open is returned without asking the store.
PageGetPage(s, h, key, mustExists) ==
  IF ~Ok(s) THEN s
  ELSE IF key \in s.pageCache[h].refs THEN s
  ELSE LET t == IF key = Null
                  THEN getInternalRootOrEntry_(s, h, s.pageCache[h].type)
                  ELSE getDataPageBlock_(s, key, mustExists)
       IN  IF ~Ok(t) THEN t ELSE [t EXCEPT !.pageCache[h].refs = @ \cup {key}]

\* getNextPage of the Page's PagedBufferFacade: v = the address of the next
\* block of the chain, Null when there is none
getNextPage(s, h, prevPage, mode) ==
  IF ~Ok(s) THEN s
  ELSE IF prevPage = Null THEN [PageGetPage_(s, h, Null, TRUE) EXCEPT !.v = h]
  ELSE LET addr == s.blockCache[prevPage].nextPage
           a == getEmptyPageAddr_(s)
           newPageAddr == a.v
           t == PageGetPage_(a, h, newPageAddr, FALSE)
       IN  IF addr # 0 THEN [PageGetPage_(s, h, addr, TRUE) EXCEPT !.v = addr]
           ELSE IF mode = "write"
             THEN IF Ok(t) THEN [SetField(t, prevPage, "nextPage", newPageAddr)
                                   EXCEPT !.v = newPageAddr]
                  ELSE t
           ELSE [s EXCEPT !.v = Null]

\* deleteNextPage of the Page's PagedBufferFacade
deleteNextPage(s, prevPage) ==
  IF ~Ok(s) \/ prevPage = Null THEN s
  ELSE deleteDataPageBlock_(s, s.blockCache[prevPage].nextPage, Fuel)

\* PagedBufferFacade.byteLength: v = the size
RECURSIVE byteLengthLoop(_, _, _, _, _)
byteLengthLoop(s, h, pageInfo, size, fuel) ==
  LET t == getNextPage_(s, h, pageInfo, "read")
  IN  IF ~Ok(t) THEN t
      ELSE IF t.v = Null THEN [t EXCEPT !.v = size]
      ELSE IF fuel = 0 THEN Throw(t, "Hang")
      ELSE byteLengthLoop(t, h, t.v, size + contentLength(t.blockCache[t.v]), fuel - 1)

byteLength(s, h) == byteLengthLoop_(s, h, Null, 0, Fuel)

Min(a, b) == IF a < b THEN a ELSE b

\* PagedBufferFacade[UNSAFE_ACCESS]: ret = the bytes read
RECURSIVE readLoop(_, _, _, _, _, _, _)
readLoop(s, h, pageInfo, skipRest, readRest, result, fuel) ==
  LET t == getNextPage_(s, h, pageInfo, "read")
      page == t.blockCache[t.v]
      pageLength == contentLength(page)
      maxReadLength == pageLength - skipRest
      readSize == IF readRest = Null THEN maxReadLength ELSE Min(maxReadLength, readRest)
      chunk == SubSeq(page.content, skipRest + 1, skipRest + readSize)
  IN  IF ~Ok(t) THEN t
      ELSE IF t.v = Null
        THEN IF readRest = Null THEN [t EXCEPT !.ret = result]
             ELSE Throw(t, "Out of range read")
      ELSE IF fuel = 0 THEN Throw(t, "Hang")
      ELSE IF skipRest >= pageLength
        THEN readLoop(t, h, t.v, skipRest - pageLength, readRest, result, fuel - 1)
      ELSE IF readRest # Null /\ readRest - readSize = 0
        THEN [t EXCEPT !.ret = result \o chunk]
      ELSE readLoop(t, h, t.v, 0,
                    IF readRest = Null THEN Null ELSE readRest - readSize,
                    result \o chunk, fuel - 1)

unsafeAccess(s, h, start, length) ==
  LET b == IF length = Null THEN byteLength_(s, h) ELSE s
  IN  IF ~Ok(b) THEN b
      ELSE IF length = Null /\ b.v - start < 0 THEN Throw(b, "Invalid typed array length")
      ELSE readLoop_(b, h, Null, start, length, << >>, Fuel + start + length + 2)

\* buffer.write(content, offset) on the content of the block cached at addr
WriteContent(s, addr, bytes, offset) ==
  SetField(s, addr, "content",
           [i \in 1..Len(s.blockCache[addr].content) |->
              IF i > offset /\ i <= offset + Len(bytes)
                THEN bytes[i - offset] ELSE s.blockCache[addr].content[i]])

RECURSIVE writeLoop(_, _, _, _, _, _, _)
writeLoop(s, h, pageInfo, skipRest, writeRest, cleanup, fuel) ==
  LET t == getNextPage_(s, h, pageInfo, "write")
      pageLength == contentLength(t.blockCache[t.v])
      maxWriteLength == pageLength - skipRest
      writeSize == Min(maxWriteLength, Len(writeRest))
      w == WriteContent(t, t.v, SubSeq(writeRest, 1, writeSize), skipRest)
      rest == SubSeq(writeRest, writeSize + 1, Len(writeRest))
  IN  IF ~Ok(t) THEN t
      ELSE IF fuel = 0 THEN Throw(t, "Hang")
      ELSE IF skipRest >= pageLength
        THEN writeLoop(t, h, t.v, skipRest - pageLength, writeRest, cleanup, fuel - 1)
      ELSE IF Len(rest) = 0
        THEN IF cleanup THEN deleteNextPage_(w, t.v) ELSE w
      ELSE writeLoop(w, h, t.v, 0, rest, cleanup, fuel - 1)

writeInternal(s, h, content, offset, cleanup) ==
  writeLoop_(s, h, Null, offset, content, cleanup, offset + Len(content) + 2)

\* every public call starts with no exception pending and nothing returned
Call(s) == [s EXCEPT !.err = NoErr, !.ret = << >>, !.v = 0, !.allocated = << >>]
Return(s) == [s EXCEPT !.v = 0]

PageRead(s, h, start, length) ==
  IF h \notin DOMAIN s.pageCache THEN Throw(Call(s), "Cannot read closed page")
  ELSE Return(checkCache(unsafeAccess_(Call(s), h, start, length)))

PageWrite(s, h, content, offset) ==
  IF h \notin DOMAIN s.pageCache THEN Throw(Call(s), "Cannot write closed page")
  ELSE Return(checkCache(writeInternal_(Call(s), h, content, offset, FALSE)))

PageWriteAndCleanup(s, h, content, offset) ==
  IF h \notin DOMAIN s.pageCache THEN Throw(Call(s), "Cannot write closed page")
  ELSE Return(checkCache(writeInternal_(Call(s), h, content, offset, TRUE)))

onPageClosed(s, addr) == ClosePages(s, {addr})

\* Page.delete of the page cached at h
PageDelete(s, h) ==
  IF ~Ok(s) THEN s
  ELSE IF h = 0 THEN Throw(s, "Can't delete Root page")
  ELSE LET t == deletePageBlock_(s, h, s.pageCache[h].type)
       IN  IF Ok(t) THEN onPageClosed(t, h) ELSE t

\* Page.byteLength of the open page cached at h (no closed check, no cache
\* check): v = the size
PageByteLength(s, h) == byteLength_(Call(s), h)

\* p.delete() on the open page cached at h
PageDeleteOpen(s, h) == Return(PageDelete_(Call(s), h))

\* A method called on the closed Page object held for the address h.
\* read, write, writeAndCleanup and cleanupAfter look at isClosed first;
\* byteLength and delete do not. The closed Page keeps its addr, its
\* internalType and the blocks it holds; close() of a closed page does nothing.
ClosedPageCall(s, h, method) ==
  LET own == [type |-> s.closedPages[h].type, managers |-> {},
              refs |-> s.closedPages[h].refs]
      b == byteLength_([Call(s) EXCEPT !.pageCache = (h :> own) @@ s.pageCache], h)
  IN  CASE method = "read" -> Throw(Call(s), "Cannot read closed page")
        [] method \in {"write", "writeAndCleanup", "cleanupAfter"} ->
             Throw(Call(s), "Cannot write closed page")
        [] method = "byteLength" ->
             [b EXCEPT !.pageCache = s.pageCache,
                       !.closedPages[h].refs = b.pageCache[h].refs]
        [] method = "delete" ->
             IF h = 0 THEN Throw(Call(s), "Can't delete Root page")
             ELSE Return(deletePageBlock_(Call(s), h, s.closedPages[h].type))

\* ------------------------------------------------------------------ PagedFile

MainManager == "main"
NoManager == "none"

instantiatePage(s, addr, manager) ==
  [s EXCEPT !.pageCache =
     (addr :> [type |-> s.blockCache[addr].type,
               managers |-> IF manager = NoManager THEN {} ELSE {manager},
               refs |-> {}]) @@ s.pageCache]

getPageFromCache(s, manager, addr, expectedType) ==
  IF ~Ok(s) THEN s
  ELSE IF s.isClosed THEN Throw(s, "Cannot read closed file")
  ELSE IF addr \in DOMAIN s.pageCache
    THEN IF manager = NoManager THEN s
         ELSE [s EXCEPT !.pageCache[addr].managers = @ \cup {manager}]
  ELSE LET t == getInternalRootOrEntry_(s, addr, expectedType)
       IN  IF Ok(t) THEN instantiatePage_(t, addr, manager) ELSE t

getRootPageForManager(s, manager) ==
  IF s.isClosed THEN Throw(Call(s), "Cannot read closed file")
  ELSE Return(getPageFromCache_(Call(s), manager, 0, Root))

getPageForManager(s, manager, addr, pageType) ==
  IF s.isClosed THEN Throw(Call(s), "Cannot read closed file")
  ELSE IF pageType # Null /\ rejectsPageType(pageType)
    THEN Throw(Call(s), "Invalid page type")
  ELSE Return(getPageFromCache_(Call(s), manager, addr,
         IF pageType = Null THEN Null ELSE entryPageTypeToPageBlockType(pageType)))

\* the arguments of getEntryPageBlock are evaluated in order: the address is
\* taken from the allocator before the page type is converted
createPageForManager(s, manager, pageType) ==
  IF s.isClosed THEN Throw(Call(s), "Cannot write closed file")
  ELSE LET a == getEmptyPageAddr_(Call(s))
           t == getEntryPageBlock_(a, a.v,
                  IF pageType = Null THEN Null ELSE entryPageTypeToPageBlockType(pageType),
                  FALSE)
       IN  IF Ok(a) /\ pageType # Null /\ rejectsPageType(pageType)
             THEN Return(Throw(a, "Invalid page type"))
           ELSE Return(IF Ok(t) THEN instantiatePage_(t, a.v, manager) ELSE t)

releasePageForManager(s, manager, addr) ==
  IF addr \in DOMAIN s.pageCache
    THEN [Call(s) EXCEPT !.pageCache[addr].managers = @ \ {manager}]
    ELSE Call(s)

releaseAllPagesForManager(s, manager) ==
  [Call(s) EXCEPT !.pageCache =
     [h \in DOMAIN s.pageCache |-> [s.pageCache[h] EXCEPT !.managers = @ \ {manager}]]]

getRootPage(s) == getRootPageForManager_(s, MainManager)

getPage(s, addr, pageType) == getPageForManager_(s, MainManager, addr, pageType)

createPage(s, pageType) == createPageForManager_(s, MainManager, pageType)

deletePage(s, addr, pageType) ==
  IF s.isClosed THEN Throw(Call(s), "Cannot delete page on closed file")
  ELSE IF addr = 0 THEN Call(s)
  ELSE IF pageType # Null /\ rejectsPageType(pageType)
    THEN Throw(Call(s), "Invalid page type")
  ELSE Return(PageDelete_(getPageFromCache_(Call(s), NoManager, addr,
         IF pageType = Null THEN Null ELSE entryPageTypeToPageBlockType(pageType)), addr))

releasePage(s, addr) == releasePageForManager(s, MainManager, addr)

releaseAllPages(s) == releaseAllPagesForManager(s, MainManager)

\* forceReleasePage: the store takes the page from every manager
forceReleasePage(s, addr) ==
  IF addr \in DOMAIN s.pageCache
    THEN [Call(s) EXCEPT !.pageCache[addr].managers = {}]
    ELSE Call(s)

forceReleaseAllPages(s) ==
  [Call(s) EXCEPT !.pageCache =
     [h \in DOMAIN s.pageCache |-> [s.pageCache[h] EXCEPT !.managers = {}]]]

\* a save that writes no block
writeNoneFromOldest(s, order) == s

\* a save that marks every block clean but leaves the freed blocks unwritten
RECURSIVE writeLiveFromOldest(_, _)
writeLiveFromOldest(s, order) ==
  IF order = << >> THEN s
  ELSE LET addr == Head(order)
           page == s.blockCache[addr]
           count == IF addr >= s.filePageCount THEN addr + 1 ELSE s.filePageCount
           grown == IF addr + 1 <= Len(s.file) THEN s.file
                    ELSE [i \in 1..(addr + 1) |->
                            IF i <= Len(s.file) THEN s.file[i]
                            ELSE [EmptyPageBlock EXCEPT !.dirty = FALSE]]
           t == [s EXCEPT !.filePageCount = count, !.blockCache[addr].dirty = FALSE]
       IN  writeLiveFromOldest(
             IF page.dirty /\ page.type # Empty
               THEN [t EXCEPT !.file = [grown EXCEPT ![addr + 1] = [page EXCEPT !.dirty = FALSE]]]
               ELSE t,
             Tail(order))

\* PageBlock.writeTo for every cached block, oldest first
RECURSIVE writeFromOldest(_, _)
writeFromOldest(s, order) ==
  IF order = << >> THEN s
  ELSE LET addr == Head(order)
           page == s.blockCache[addr]
           count == IF addr >= s.filePageCount THEN addr + 1 ELSE s.filePageCount
           grown == IF addr + 1 <= Len(s.file) THEN s.file
                    ELSE [i \in 1..(addr + 1) |->
                            IF i <= Len(s.file) THEN s.file[i]
                            ELSE [EmptyPageBlock EXCEPT !.dirty = FALSE]]
           t == [s EXCEPT !.filePageCount = count]
       IN  writeFromOldest(
             IF page.dirty
               THEN [t EXCEPT !.file = [grown EXCEPT ![addr + 1] = [page EXCEPT !.dirty = FALSE]],
                              !.blockCache[addr].dirty = FALSE]
               ELSE t,
             Tail(order))

\* the byte size of the file, and of the store with its unsaved pages
PagedFileSize(s) == s.filePageCount * PageSize

PagedFileUnsavedSize(s) == s.memoryPageCount * PageSize

\* a save that does not look at isClosed
saveUnchecked(s) == Return(checkCache(writeFromOldest(Call(s), s.lru)))

save(s) ==
  IF s.isClosed THEN Throw(Call(s), "Cannot write closed file")
  ELSE Return(checkCache(writeFromOldest(Call(s), s.lru)))

\* a close that flushes the dirty blocks to the file
closeFlushing(s) == [Return(writeFromOldest(Call(s), s.lru)) EXCEPT !.isClosed = TRUE]

\* close: the store is bound to a host file (never MEMORY), and isClosed is set
\* by close alone, so the file handle is closed exactly when isClosed is.
\* file.close() on a closed handle: the host throws BadResource.
close(s) ==
  IF s.isClosed THEN Throw(Call(s), "Bad resource ID")
  ELSE [Call(s) EXCEPT !.isClosed = TRUE]

\* ------------------------------------------------------------------ the public interface

\* a call of the public interface on the store s
\* (a PageManager hands every call to the store with itself as the manager;
\* o.closed: the call is made on the closed Page object held for o.addr)
Apply(s, o) ==
  CASE o.closed -> ClosedPageCall_(s, o.addr, o.name)
    [] o.name = "getRootPage" ->
         IF o.manager = MainManager THEN getRootPage_(s)
         ELSE getRootPageForManager_(s, o.manager)
    [] o.name = "getPage" ->
         IF o.manager = MainManager THEN getPage_(s, o.addr, o.pageType)
         ELSE getPageForManager_(s, o.manager, o.addr, o.pageType)
    [] o.name = "createPage" ->
         IF o.manager = MainManager THEN createPage_(s, o.pageType)
         ELSE createPageForManager_(s, o.manager, o.pageType)
    [] o.name = "deletePage" -> deletePage_(s, o.addr, o.pageType)
    [] o.name = "releasePage" ->
         IF o.manager = MainManager THEN releasePage(s, o.addr)
         ELSE releasePageForManager(s, o.manager, o.addr)
    [] o.name = "releaseAllPages" ->
         IF o.manager = MainManager THEN releaseAllPages(s)
         ELSE releaseAllPagesForManager(s, o.manager)
    [] o.name = "forceReleasePage" -> forceReleasePage(s, o.addr)
    [] o.name = "forceReleaseAllPages" -> forceReleaseAllPages(s)
    [] o.name = "byteLength" -> PageByteLength_(s, o.addr)
    [] o.name = "delete" -> PageDeleteOpen_(s, o.addr)
    [] o.name = "write" -> PageWrite_(s, o.addr, o.content, o.offset)
    [] o.name = "writeAndCleanup" -> PageWriteAndCleanup_(s, o.addr, o.content, o.offset)
    [] o.name = "read" -> PageRead_(s, o.addr, o.offset, o.length)
    [] o.name = "save" -> save_(s)
    [] o.name = "close" -> close_(s)

\* a head page of the store, read whole through the public interface
ReadHead(s, a) ==
  LET g == IF a = 0 THEN getRootPage_(s) ELSE getPage_(s, a, Null)
      r == PageRead_(g, a, 0, Null)
  IN  IF ~Ok(g) THEN [ok |-> FALSE, bytes |-> << >>]
      ELSE [ok |-> Ok(r), bytes |-> r.ret]

\* the dispatch of a call to the method it names
Do(f, a) ==
  CASE f = "getPageBlock" -> getPageBlock(a[1], a[2], a[3], a[4])
    [] f = "getRootPageBlock" -> getRootPageBlock(a[1])
    [] f = "getEntryPageBlock" -> getEntryPageBlock(a[1], a[2], a[3], a[4])
    [] f = "getDataPageBlock" -> getDataPageBlock(a[1], a[2], a[3])
    [] f = "getEmptylistPageBlock" -> getEmptylistPageBlock(a[1], a[2], a[3])
    [] f = "getInternalRootOrEntry" -> getInternalRootOrEntry(a[1], a[2], a[3])
    [] f = "followEmptylist" -> followEmptylist(a[1], a[2], a[3])
    [] f = "getLastEmptylistPage" -> getLastEmptylistPage(a[1])
    [] f = "pop" -> pop(a[1], a[2])
    [] f = "getEmptyPageAddr" -> getEmptyPageAddr(a[1])
    [] f = "addAddrToEmptylist" -> addAddrToEmptylist(a[1], a[2])
    [] f = "deleteDataPageBlock" -> deleteDataPageBlock(a[1], a[2], a[3])
    [] f = "deletePageBlock" -> deletePageBlock(a[1], a[2], a[3])
    [] f = "PageGetPage" -> PageGetPage(a[1], a[2], a[3], a[4])
    [] f = "getNextPage" -> getNextPage(a[1], a[2], a[3], a[4])
    [] f = "deleteNextPage" -> deleteNextPage(a[1], a[2])
    [] f = "byteLengthLoop" -> byteLengthLoop(a[1], a[2], a[3], a[4], a[5])
    [] f = "byteLength" -> byteLength(a[1], a[2])
    [] f = "readLoop" -> readLoop(a[1], a[2], a[3], a[4], a[5], a[6], a[7])
    [] f = "unsafeAccess" -> unsafeAccess(a[1], a[2], a[3], a[4])
    [] f = "writeLoop" -> writeLoop(a[1], a[2], a[3], a[4], a[5], a[6], a[7])
    [] f = "writeInternal" -> writeInternal(a[1], a[2], a[3], a[4], a[5])
    [] f = "PageRead" -> PageRead(a[1], a[2], a[3], a[4])
    [] f = "PageWrite" -> PageWrite(a[1], a[2], a[3], a[4])
    [] f = "PageWriteAndCleanup" -> PageWriteAndCleanup(a[1], a[2], a[3], a[4])
    [] f = "PageDelete" -> PageDelete(a[1], a[2])
    [] f = "instantiatePage" -> instantiatePage(a[1], a[2], a[3])
    [] f = "getPageFromCache" -> getPageFromCache(a[1], a[2], a[3], a[4])
    [] f = "getRootPageForManager" -> getRootPageForManager(a[1], a[2])
    [] f = "getPageForManager" -> getPageForManager(a[1], a[2], a[3], a[4])
    [] f = "createPageForManager" -> createPageForManager(a[1], a[2], a[3])
    [] f = "PageByteLength" -> PageByteLength(a[1], a[2])
    [] f = "PageDeleteOpen" -> PageDeleteOpen(a[1], a[2])
    [] f = "ClosedPageCall" -> ClosedPageCall(a[1], a[2], a[3])
    [] f = "getRootPage" -> getRootPage(a[1])
    [] f = "getPage" -> getPage(a[1], a[2], a[3])
    [] f = "createPage" -> createPage(a[1], a[2])
    [] f = "deletePage" -> deletePage(a[1], a[2], a[3])
    [] f = "save" -> save(a[1])
    [] f = "close" -> close(a[1])
    [] f = "Apply" -> Apply(a[1], a[2])
    [] f = "ReadHead" -> ReadHead(a[1], a[2])

ReadHeads(s) == [a \in Heads(s) |-> ReadHead_(s, a)]

\* ------------------------------------------------------------------ the state machine

VARIABLES
  pf,      \* the PagedFile object (with the host file it is bound to)
  twin,    \* a second PagedFile given the same calls, opened with a cache that never evicts
  op,      \* the last call made, and how many calls were made
  saved,   \* the host file as the last save left it
  snap,    \* what every head page read when the store was closed right after a save
  batch,   \* progress of the create / delete / create scenario
  client   \* what the caller knows: the subtype it gave each page it created
           \* (and which of them the last save covered), the managers that
           \* obtained each handle and have not released it

vars == << pf, twin, op, saved, snap, batch, client >>

OpOf(name, addr, content, offset, length) ==
  [name |-> name, addr |-> addr, content |-> content, offset |-> offset,
   length |-> length, pageType |-> Null, manager |-> MainManager,
   closed |-> FALSE, n |-> 0]

\* a call that names a page type, made through a manager
OpFor(name, addr, pageType, manager) ==
  [OpOf(name, addr, << >>, 0, 0) EXCEPT !.pageType = pageType, !.manager = manager]

\* the client of a specification that never uses a closed Page drops it
Forget(s) == [s EXCEPT !.closedPages = << >>]

NoClient == [types |-> << >>, savedTypes |-> << >>, reopened |-> FALSE, holders |-> << >>,
             shared |-> {}]

NoSnap == [valid |-> FALSE, unsaved |-> FALSE, reads |-> << >>]
NoBatch == [phase |-> "off", n |-> 0, left |-> 0, made |-> {}, peak |-> 0]

\* the content handed to write: the bytes 1, 2, ..., len
Content(len) == [i \in 1..len |-> i]

\* lengths that fit the head, spill into one data page, spill into two
Lens == {1, RootContentLength + 1, RootContentLength + DataContentLength + 1}
Offs == {0, DataContentLength}
Addrs == 1..(MaxPages - 1)
CacheSizes == 0..MaxCache

Init ==
  /\ \E c \in CacheSizes : pf = PagedFileNew(<< >>, c)
  /\ twin = PagedFileNew(<< >>, Fuel)
  /\ op = [OpOf("new", 0, << >>, 0, 0) EXCEPT !.n = 0]
  /\ saved = << >>
  /\ snap = NoSnap
  /\ batch = NoBatch
  /\ client = NoClient

\* One call: `after` is the store when the call returns. A call that never
\* returns leaves the caller inside it for ever.
Called(after, o, limit) ==
  /\ op.name # "hang"
  /\ op.n < limit
  /\ after.memoryPageCount <= MaxPages
  /\ IF after.err = "Hang"
       THEN pf' = pf /\ op' = [o EXCEPT !.name = "hang", !.n = op.n + 1]
       ELSE pf' = Forget(after) /\ op' = [o EXCEPT !.n = op.n + 1]
  /\ saved' = IF o.name = "save" /\ Ok(after) THEN after.file ELSE saved
  /\ snap' = IF o.name # "close" THEN snap
             ELSE [valid |-> op.name = "save" /\ Ok(pf),
                   unsaved |-> \E a \in DOMAIN pf.blockCache : pf.blockCache[a].dirty,
                   reads |-> IF op.name = "save" /\ Ok(pf) THEN ReadHeads(pf) ELSE << >>]
  /\ UNCHANGED << batch, client >>

Step(o) == Called(Apply_(pf, o), o, MaxCalls) /\ UNCHANGED twin

GetRootPage ==
  /\ op.name # "hang"
  /\ Step(OpOf("getRootPage", 0, << >>, 0, 0))
CreatePage ==
  /\ op.name # "hang"
  /\ Step(OpOf("createPage", 0, << >>, 0, 0))
DeletePage ==
  /\ op.name # "hang"
  /\ \E a \in Addrs : Step(OpOf("deletePage", a, << >>, 0, 0))
Write ==
  \E h \in DOMAIN pf.pageCache, len \in Lens, o \in Offs :
    Step(OpOf("write", h, Content(len), o, len))
WriteAndCleanup ==
  \E h \in DOMAIN pf.pageCache, len \in Lens, o \in Offs :
    Step(OpOf("writeAndCleanup", h, Content(len), o, len))
Save ==
  /\ op.name # "hang"
  /\ Step(OpOf("save", 0, << >>, 0, 0))
Close ==
  /\ ~pf.isClosed
  /\ Step(OpOf("close", 0, << >>, 0, 0))

\* the file is opened again with the same options
Open ==
  /\ op.name = "close"
  /\ pf' = PagedFileNew(pf.file, pf.cacheSize)
  /\ op' = [OpOf("open", 0, << >>, 0, 0) EXCEPT !.n = op.n]
  /\ UNCHANGED << twin, saved, snap, batch, client >>

Next ==
  \/ GetRootPage
  \/ CreatePage
  \/ DeletePage
  \/ Write
  \/ WriteAndCleanup
  \/ Save
  \/ Close
  \/ Open

Spec == Init /\ [][Next]_vars

\* ---- pages created, deleted and written, never saved: longer behaviours

StepW(o) == Called(Apply_(pf, o), o, MaxWriteCalls) /\ UNCHANGED twin

CreatePageW ==
  /\ op.name # "hang"
  /\ StepW(OpOf("createPage", 0, << >>, 0, 0))
DeletePageW ==
  /\ op.name # "hang"
  /\ \E a \in Addrs : StepW(OpOf("deletePage", a, << >>, 0, 0))
WriteW ==
  \E h \in DOMAIN pf.pageCache, len \in Lens, o \in Offs :
    StepW(OpOf("write", h, Content(len), o, len))
WriteAndCleanupW ==
  \E h \in DOMAIN pf.pageCache, len \in Lens :
    StepW(OpOf("writeAndCleanup", h, Content(len), 0, len))

NextWrite == CreatePageW \/ DeletePageW \/ WriteW \/ WriteAndCleanupW

SpecWrite == Init /\ [][NextWrite]_vars

\* ---- two stores given the same calls: pf evicts, twin never does

StepT(o) ==
  /\ op.name \notin {"hang", "diverged"}
  /\ op.n < MaxTwinCalls
  /\ Apply_(pf, o).memoryPageCount <= MaxPages
  /\ LET a == Apply_(pf, o)
         b == Apply_(twin, o)
     IN  IF a.err = "Hang" \/ b.err = "Hang"
           THEN /\ pf' = pf
                /\ twin' = twin
                /\ op' = [o EXCEPT !.name = IF a.err = b.err THEN "hang" ELSE "diverged",
                                   !.n = op.n + 1]
           ELSE pf' = Forget(a) /\ twin' = Forget(b) /\ op' = [o EXCEPT !.n = op.n + 1]
  /\ UNCHANGED << saved, snap, batch, client >>

GetRootPageT ==
  /\ op.name # "hang"
  /\ StepT(OpOf("getRootPage", 0, << >>, 0, 0))
GetPageT ==
  /\ op.name # "hang"
  /\ \E a \in Addrs : StepT(OpOf("getPage", a, << >>, 0, 0))
CreatePageT ==
  /\ op.name # "hang"
  /\ StepT(OpOf("createPage", 0, << >>, 0, 0))
DeletePageT ==
  /\ op.name # "hang"
  /\ \E a \in Addrs : StepT(OpOf("deletePage", a, << >>, 0, 0))
WriteT ==
  \E h \in DOMAIN pf.pageCache, len \in Lens :
    StepT(OpOf("write", h, Content(len), 0, len))
WriteAndCleanupT ==
  \E h \in DOMAIN pf.pageCache :
    StepT(OpOf("writeAndCleanup", h, Content(1), 0, 1))
ReadT ==
  \E h \in DOMAIN pf.pageCache, length \in {Null, RootContentLength + 1} :
    StepT(OpOf("read", h, << >>, 0, length))
SaveT ==
  /\ op.name # "hang"
  /\ StepT(OpOf("save", 0, << >>, 0, 0))

NextTwin ==
  \/ GetRootPageT
  \/ GetPageT
  \/ CreatePageT
  \/ DeletePageT
  \/ WriteT
  \/ WriteAndCleanupT
  \/ ReadT
  \/ SaveT

SpecTwin == Init /\ [][NextTwin]_vars

\* ---- the space-reuse scenario: create n pages, save, delete them all, create n more, save

InitReuse ==
  /\ \E c \in CacheSizes : pf = PagedFileNew(<< >>, c)
  /\ twin = PagedFileNew(<< >>, Fuel)
  /\ op = [OpOf("new", 0, << >>, 0, 0) EXCEPT !.n = 0]
  /\ saved = << >>
  /\ snap = NoSnap
  /\ \E n \in 1..MaxBatch : batch = [NoBatch EXCEPT !.phase = "create", !.n = n, !.left = n]
  /\ client = NoClient

Scenario(after, o) ==
  /\ Ok(after)
  /\ pf' = Forget(after)
  /\ op' = [o EXCEPT !.n = op.n + 1]
  /\ saved' = IF o.name = "save" THEN after.file ELSE saved
  /\ UNCHANGED << twin, snap, client >>

ReuseCreate ==
  /\ batch.phase = "create"
  /\ Scenario(createPage_(pf, Null), OpOf("createPage", 0, << >>, 0, 0))
  /\ batch' = [batch EXCEPT !.made = @ \cup {pf'.allocated[1].addr},
                            !.left = @ - 1,
                            !.phase = IF batch.left = 1 THEN "save" ELSE "create"]

ReuseSave ==
  /\ batch.phase = "save"
  /\ Scenario(save_(pf), OpOf("save", 0, << >>, 0, 0))
  /\ batch' = [batch EXCEPT !.peak = pf'.filePageCount, !.phase = "delete"]

ReuseDelete ==
  /\ batch.phase = "delete"
  /\ \E a \in batch.made :
       /\ Scenario(deletePage_(pf, a, Null), OpOf("deletePage", a, << >>, 0, 0))
       /\ batch' = [batch EXCEPT !.made = @ \ {a},
                                 !.left = batch.n,
                                 !.phase = IF batch.made = {a} THEN "again" ELSE "delete"]

ReuseCreateAgain ==
  /\ batch.phase = "again"
  /\ Scenario(createPage_(pf, Null), OpOf("createPage", 0, << >>, 0, 0))
  /\ batch' = [batch EXCEPT !.left = @ - 1,
                            !.phase = IF batch.left = 1 THEN "flush" ELSE "again"]

ReuseFinalSave ==
  /\ batch.phase = "flush"
  /\ Scenario(save_(pf), OpOf("save", 0, << >>, 0, 0))
  /\ batch' = [batch EXCEPT !.phase = "done"]

NextReuse ==
  \/ ReuseCreate
  \/ ReuseSave
  \/ ReuseDelete
  \/ ReuseCreateAgain
  \/ ReuseFinalSave

SpecReuse == InitReuse /\ [][NextReuse]_vars

\* ---- pages of several subtypes: created, fetched by type, deleted, saved, reopened

\* Page.type of the open page cached at h
PageType(s, h) == IF h = 0 THEN 0 ELSE s.pageCache[h].type - Entry

Subtypes == {0, 1}
\* a subtype below the range and one above it
BadSubtypes == {0 - 2, MaxSubtype + 1}

\* the subtype the caller gave each live page: set by a createPage that
\* returned (no subtype named: 0), dropped by a deletePage of the address
TypesAfter(after, o) ==
  IF o.name = "createPage" /\ Ok(after)
    THEN (after.allocated[1].addr :> (IF o.pageType = Null THEN 0 ELSE o.pageType))
           @@ client.types
  ELSE IF o.name = "deletePage"
    THEN [a \in (DOMAIN client.types) \ {o.addr} |-> client.types[a]]
  ELSE client.types

StepY(o) ==
  /\ op.n < MaxTypedCalls
  /\ LET after == Apply_(pf, o)
     IN  /\ after.memoryPageCount <= MaxPages
         /\ after.err # "Hang"
         /\ pf' = Forget(after)
         /\ op' = [o EXCEPT !.n = op.n + 1]
         /\ saved' = IF o.name = "save" /\ Ok(after) THEN after.file ELSE saved
         /\ client' = [client EXCEPT
                         !.types = TypesAfter(after, o),
                         !.savedTypes = IF o.name = "save" /\ Ok(after)
                                          THEN client.types ELSE @]
  /\ UNCHANGED << twin, snap, batch >>

CreatePageY ==
  /\ ~pf.isClosed
  /\ \E t \in {Null, 1} \cup BadSubtypes : StepY(OpFor("createPage", 0, t, MainManager))
GetPageY ==
  /\ ~pf.isClosed
  /\ \E a \in Addrs, t \in {Null} \cup Subtypes : StepY(OpFor("getPage", a, t, MainManager))
DeletePageY ==
  /\ ~pf.isClosed
  /\ \E a \in Addrs : StepY(OpFor("deletePage", a, Null, MainManager))
WriteY ==
  /\ ~pf.isClosed
  /\ \E h \in DOMAIN pf.pageCache :
       StepY(OpOf("write", h, Content(DataContentLength + 1), 0, DataContentLength + 1))
SaveY ==
  /\ ~pf.isClosed
  /\ StepY(OpOf("save", 0, << >>, 0, 0))
CloseY ==
  /\ ~pf.isClosed
  /\ StepY(OpOf("close", 0, << >>, 0, 0))
OpenY ==
  /\ pf.isClosed
  /\ pf' = PagedFileNew(pf.file, pf.cacheSize)
  /\ op' = [OpOf("open", 0, << >>, 0, 0) EXCEPT !.n = op.n]
  /\ client' = [client EXCEPT !.types = client.savedTypes, !.reopened = TRUE]
  /\ UNCHANGED << twin, saved, snap, batch >>

NextTyped ==
  \/ CreatePageY
  \/ GetPageY
  \/ DeletePageY
  \/ WriteY
  \/ SaveY
  \/ CloseY
  \/ OpenY

SpecTyped == Init /\ [][NextTyped]_vars

\* ---- handles: two managers obtain and release pages, closed pages are still called

SecondManager == "second"
Managers == {MainManager, SecondManager}

\* the methods of a Page the claims name
PageMethods == {"read", "write", "writeAndCleanup", "cleanupAfter", "byteLength", "delete"}

\* the address of the handle a call returned
Obtained(after, o) ==
  IF o.name = "getRootPage" THEN 0
  ELSE IF o.name = "getPage" THEN o.addr
  ELSE after.allocated[1].addr

\* the managers that obtained the handle of an address and have not released
\* it (a forced release by the store releases it for all of them); a handle
\* closed by a delete, or replaced by a newly created page, starts again
HoldersAfter(after, o) ==
  LET had(a) == IF a \in DOMAIN client.holders THEN client.holders[a] ELSE {}
  IN  IF o.closed THEN client.holders
      ELSE IF o.name \in {"getRootPage", "getPage"} /\ Ok(after)
        THEN (Obtained(after, o) :> (had(Obtained(after, o)) \cup {o.manager})) @@ client.holders
      ELSE IF o.name = "createPage" /\ Ok(after)
        THEN (Obtained(after, o) :> {o.manager}) @@ client.holders
      ELSE IF o.name = "releasePage"
        THEN (o.addr :> (had(o.addr) \ {o.manager})) @@ client.holders
      ELSE IF o.name = "releaseAllPages"
        THEN [a \in DOMAIN client.holders |-> client.holders[a] \ {o.manager}]
      ELSE IF o.name = "forceReleasePage"
        THEN (o.addr :> {}) @@ client.holders
      ELSE IF o.name = "forceReleaseAllPages"
        THEN [a \in DOMAIN client.holders |-> {}]
      ELSE IF o.name \in {"deletePage", "delete"} /\ o.addr \notin DOMAIN after.pageCache
        THEN (o.addr :> {}) @@ client.holders
      ELSE client.holders

\* the addresses whose handle one manager released while another kept it
SharedAfter(after, o) ==
  LET left == HoldersAfter(after, o)
  IN  { a \in DOMAIN left :
          /\ left[a] # {}
          /\ \/ a \in client.shared
             \/ /\ o.name \in {"releasePage", "releaseAllPages"}
                /\ a \in DOMAIN client.holders
                /\ o.manager \in client.holders[a] }

StepH(o) ==
  /\ op.n < MaxHandleCalls
  /\ LET after == Apply_(pf, o)
     IN  /\ after.memoryPageCount <= MaxPages
         /\ after.err # "Hang"
         /\ pf' = after
         /\ op' = [o EXCEPT !.n = op.n + 1]
         /\ client' = [client EXCEPT !.holders = HoldersAfter(after, o),
                                     !.shared = SharedAfter(after, o)]
  /\ UNCHANGED << twin, saved, snap, batch >>

GetRootPageH ==
  /\ op.name # "hang"
  /\ \E m \in Managers : StepH(OpFor("getRootPage", 0, Null, m))
GetPageH ==
  /\ op.name # "hang"
  /\ \E a \in Addrs, m \in Managers : StepH(OpFor("getPage", a, Null, m))
CreatePageH ==
  /\ op.name # "hang"
  /\ \E m \in Managers : StepH(OpFor("createPage", 0, Null, m))
DeletePageH ==
  /\ op.name # "hang"
  /\ \E a \in Addrs, m \in Managers : StepH(OpFor("deletePage", a, Null, m))
ReleasePageH ==
  /\ op.name # "hang"
  /\ \E a \in DOMAIN pf.pageCache, m \in Managers : StepH(OpFor("releasePage", a, Null, m))
ReleaseAllPagesH ==
  /\ op.name # "hang"
  /\ \E m \in Managers : StepH(OpFor("releaseAllPages", 0, Null, m))
ForceReleasePageH ==
  /\ op.name # "hang"
  /\ \E a \in DOMAIN pf.pageCache : StepH(OpOf("forceReleasePage", a, << >>, 0, 0))
ForceReleaseAllPagesH ==
  /\ op.name # "hang"
  /\ StepH(OpOf("forceReleaseAllPages", 0, << >>, 0, 0))
SaveH ==
  /\ op.name # "hang"
  /\ StepH(OpOf("save", 0, << >>, 0, 0))
CloseH ==
  /\ ~pf.isClosed
  /\ StepH(OpOf("close", 0, << >>, 0, 0))
CloseAgainH ==
  /\ pf.isClosed
  /\ StepH(OpOf("close", 0, << >>, 0, 0))
\* the methods of an open page
WriteH ==
  /\ ~pf.isClosed
  /\ \E h \in DOMAIN pf.pageCache :
       StepH(OpOf("write", h, Content(DataContentLength + 1), 0, DataContentLength + 1))
ReadH ==
  /\ ~pf.isClosed
  /\ \E h \in DOMAIN pf.pageCache : StepH(OpOf("read", h, << >>, 0, 1))
ByteLengthH ==
  /\ ~pf.isClosed
  /\ \E h \in DOMAIN pf.pageCache : StepH(OpOf("byteLength", h, << >>, 0, 0))
DeleteH ==
  /\ ~pf.isClosed
  /\ \E h \in DOMAIN pf.pageCache : StepH(OpOf("delete", h, << >>, 0, 0))
\* the methods of a closed page the caller still holds
ClosedCallH ==
  /\ ~pf.isClosed
  /\ \E h \in DOMAIN pf.closedPages, method \in PageMethods :
       StepH([OpOf(method, h, Content(1), 0, 1) EXCEPT !.closed = TRUE])

NextHandle ==
  \/ GetRootPageH
  \/ GetPageH
  \/ CreatePageH
  \/ DeletePageH
  \/ ReleasePageH
  \/ ReleaseAllPagesH
  \/ ForceReleasePageH
  \/ ForceReleaseAllPagesH
  \/ SaveH
  \/ CloseH
  \/ CloseAgainH
  \/ WriteH
  \/ ReadH
  \/ ByteLengthH
  \/ DeleteH
  \/ ClosedCallH

SpecHandle == Init /\ [][NextHandle]_vars

\* ---- a store opened on the file of a store that was configured with twice the pageSize

OtherPageSize == 2 * PageSize

\* Every page of the other store is two pages of this one. Its root page
\* starts with the root header, which is read as this store's page 0; the
\* second half of each of its pages is content bytes, read as a page whose
\* type byte is whatever byte the content has there.
ForeignRoot == [ZeroBuffer(Root) EXCEPT !.pageSize = OtherPageSize, !.dirty = FALSE]
ForeignEntry == [ZeroBuffer(Entry) EXCEPT !.dirty = FALSE]
RawPages ==
  { [EmptyPageBlock EXCEPT !.dirty = FALSE],
    [ZeroBuffer(Data) EXCEPT !.content = Content(DataContentLength), !.dirty = FALSE],
    [ZeroBuffer(Entry) EXCEPT !.content = Content(DataContentLength), !.dirty = FALSE] }
ForeignFiles == { << ForeignRoot, x, ForeignEntry, y >> : x \in RawPages, y \in RawPages }

\* new PagedFile(path, {pageSize, cacheSize}) on such a file
InitForeign ==
  /\ \E c \in CacheSizes, file \in ForeignFiles : pf = PagedFileNew(file, c) /\ saved = file
  /\ twin = PagedFileNew(<< >>, Fuel)
  /\ op = [OpOf("open", 0, << >>, 0, 0) EXCEPT !.n = 0]
  /\ snap = NoSnap
  /\ batch = NoBatch
  /\ client = NoClient

StepF(o) == Called(Apply_(pf, o), o, MaxForeignCalls) /\ UNCHANGED twin

GetRootPageF ==
  /\ ~pf.isClosed
  /\ StepF(OpOf("getRootPage", 0, << >>, 0, 0))
GetPageF ==
  /\ ~pf.isClosed
  /\ \E a \in Addrs : StepF(OpOf("getPage", a, << >>, 0, 0))
CreatePageF ==
  /\ ~pf.isClosed
  /\ StepF(OpOf("createPage", 0, << >>, 0, 0))
DeletePageF ==
  /\ ~pf.isClosed
  /\ \E a \in Addrs : StepF(OpOf("deletePage", a, << >>, 0, 0))
ReadF ==
  /\ ~pf.isClosed
  /\ \E h \in DOMAIN pf.pageCache : StepF(OpOf("read", h, << >>, 0, Null))
WriteF ==
  /\ ~pf.isClosed
  /\ \E h \in DOMAIN pf.pageCache, len \in Lens : StepF(OpOf("write", h, Content(len), 0, len))
SaveF ==
  /\ ~pf.isClosed
  /\ StepF(OpOf("save", 0, << >>, 0, 0))

NextForeign ==
  \/ GetRootPageF
  \/ GetPageF
  \/ CreatePageF
  \/ DeletePageF
  \/ ReadF
  \/ WriteF
  \/ SaveF

SpecForeign == InitForeign /\ [][NextForeign]_vars

\* ---- a store opened on a host file that already has very many pages

\* new PagedFile(path) on a preallocated file of n pages of zero bytes: every
\* page of it is an Empty page. The field `file` lists the pages up to the last
\* one ever written; a page beyond it reads as zeros (readPageBuffer).
PagedFileOnZeros(n, cacheSize) ==
  [PagedFileNew(<< >>, cacheSize) EXCEPT !.filePageCount = n, !.memoryPageCount = n]

LargeAddrs == {1, Uint16Max - 1, Uint16Max, Uint16Max + 1}

InitLarge ==
  /\ \E c \in CacheSizes, n \in {Uint16Max - 1, Uint16Max} : pf = PagedFileOnZeros(n, c)
  /\ twin = PagedFileNew(<< >>, Fuel)
  /\ op = [OpOf("open", 0, << >>, 0, 0) EXCEPT !.n = 0]
  /\ saved = << >>
  /\ snap = NoSnap
  /\ batch = NoBatch
  /\ client = NoClient

StepL(o) ==
  /\ op.n < MaxLargeCalls
  /\ LET after == Apply_(pf, o)
     IN  /\ after.memoryPageCount <= Uint16Max + 2
         /\ after.err # "Hang"
         /\ pf' = Forget(after)
         /\ op' = [o EXCEPT !.n = op.n + 1]
  /\ UNCHANGED << twin, saved, snap, batch, client >>

CreatePageL ==
  /\ ~pf.isClosed
  /\ StepL(OpOf("createPage", 0, << >>, 0, 0))
GetPageL ==
  /\ ~pf.isClosed
  /\ \E a \in LargeAddrs : StepL(OpOf("getPage", a, << >>, 0, 0))
DeletePageL ==
  /\ ~pf.isClosed
  /\ \E a \in LargeAddrs : StepL(OpOf("deletePage", a, << >>, 0, 0))
WriteL ==
  /\ ~pf.isClosed
  /\ \E h \in DOMAIN pf.pageCache :
       StepL(OpOf("write", h, Content(DataContentLength + 1), 0, DataContentLength + 1))
ReadL ==
  /\ ~pf.isClosed
  /\ \E h \in DOMAIN pf.pageCache : StepL(OpOf("read", h, << >>, 0, DataContentLength + 1))
NextLarge ==
  \/ CreatePageL
  \/ GetPageL
  \/ DeletePageL
  \/ WriteL
  \/ ReadL

SpecLarge == InitLarge /\ [][NextLarge]_vars

\* ------------------------------------------------------------------ claims

\* C1: no address appears twice in the free-list: over the free-list nodes linked
\* from the root, two different slots never hold the same address.
C1_NoDuplicateFreeAddress ==
  \A s1, s2 \in FreelistSlots(pf) : SlotAddr(pf, s1) = SlotAddr(pf, s2) => s1 = s2

\* C2: every page of kind Data is in the overflow chain of exactly one head
\* (the root or an entry page).
C2_DataPageInOneChain ==
  \A a \in 0..(pf.memoryPageCount - 1) :
    View(pf, a).type = Data =>
      Cardinality({ h \in Heads(pf) : a \in Chain(pf, h) }) = 1

\* C3: no address held in the free-list, in a slot or as a node linked from the
\* root, is reachable by following nextPage from the root or an entry page.
C3_FreeAddressInNoChain ==
  \A h \in Heads(pf) : Chain(pf, h) \cap (FreelistAddrs(pf) \cup NodeSet(pf)) = {}

\* C4: an address the allocator returns is, at that moment, in no slot of a
\* free-list node linked from the root.
C4_AllocatedNotInFreelist ==
  \A i \in 1..Len(pf.allocated) : ~pf.allocated[i].inFreelist

\* C5: n pages created, all n deleted, n more created: after the save the file
\* holds no more pages than after the first n creations.
C5_SecondBatchReusesSpace ==
  batch.phase = "done" => pf.filePageCount <= batch.peak

\* C6: right after p.write(x, o) has returned, p.read(o, len(x)) returns x.
C6_ReadAfterWrite ==
  (op.name = "write" /\ Ok(pf)) =>
    LET r == PageRead_(pf, op.addr, op.offset, op.length)
    IN  Ok(r) /\ r.ret = op.content

\* C7: after save, close and reopening the file with the same page size, the
\* root and every entry page read back what they held just before the close
\* (snap.reads, taken when a close follows a successful save).
C7_PersistAcrossReopen ==
  (op.name = "open" /\ snap.valid) => ReadHeads(pf) = snap.reads

\* a reopened store whose saved heads held a chain with written bytes
C7_Witness ==
  /\ op.name = "open"
  /\ snap.valid
  /\ \E a \in DOMAIN snap.reads :
       /\ a # 0
       /\ snap.reads[a].ok
       /\ Len(snap.reads[a].bytes) > DataContentLength
       /\ \E i \in DOMAIN snap.reads[a].bytes : snap.reads[a].bytes[i] # 0
  /\ ReadHeads(pf) = snap.reads

\* C8: only save changes the host file: the file is always what the last
\* successful save left (empty when there was none), so a store closed with
\* unsaved changes reopens on the last saved state.
C8_OnlySaveChangesFile ==
  /\ pf.file = saved
  /\ op.name = "open" =>
       /\ pf.filePageCount = Len(saved)
       /\ pf.lru = << >>
       /\ ReadHeads(pf) = ReadHeads(PagedFileNew(saved, pf.cacheSize))

\* a store closed while it held unsaved blocks, after an earlier save, reopened
C8_Witness ==
  /\ op.name = "open"
  /\ snap.unsaved
  /\ saved # << >>
  /\ pf.file = saved

\* C9: eviction never removes a dirty block: a block that is dirty before a call
\* is still cached and dirty after it, unless the call is a save, which has
\* written it to the file as it was.
C9_DirtyNeverEvicted ==
  [][ \A a \in DOMAIN pf.blockCache :
        (pf.blockCache[a].dirty /\ op'.name # "open") =>
          IF op'.name = "save" /\ Ok(pf')
            THEN pf'.file[a + 1] = [pf.blockCache[a] EXCEPT !.dirty = FALSE]
            ELSE a \in DOMAIN pf'.blockCache /\ pf'.blockCache[a].dirty ]_vars

\* a write returned with more blocks cached than cacheSize: the clean root
\* was evicted, the dirty blocks were kept
C9_Witness ==
  /\ op.name = "write"
  /\ Ok(pf)
  /\ Len(pf.lru) > pf.cacheSize
  /\ pf.allocated # << >>
  /\ 0 \notin DOMAIN pf.blockCache
  /\ \A a \in DOMAIN pf.blockCache : pf.blockCache[a].dirty

\* C10: a store that evicts (cacheSize 0 or more) and a store that never evicts,
\* given the same calls, return the same bytes and outcomes and hold the same
\* file content.
C10_EvictionUnobservable ==
  /\ pf.ret = twin.ret
  /\ pf.err = twin.err
  /\ pf.file = twin.file
  /\ op.name # "diverged"

\* a read of a saved chain by a store with cacheSize 0 that has evicted blocks
\* the other store still holds
C10_Witness ==
  /\ op.name = "read"
  /\ pf.cacheSize = 0
  /\ Ok(pf)
  /\ Len(pf.ret) > DataContentLength
  /\ \E i \in DOMAIN pf.ret : pf.ret[i] # 0
  /\ pf.file # << >>
  /\ Len(twin.lru) > Len(pf.lru)
  /\ pf.ret = twin.ret

\* C11: a page created with subtype s keeps the kind byte Entry + s at its
\* address, and every open handle for the address reports type s, in the
\* session and after save, close and reopen, until the page is deleted.
C11_TypePreserved ==
  \A a \in DOMAIN client.types :
    /\ View(pf, a).type = Entry + client.types[a]
    /\ a \in DOMAIN pf.pageCache => PageType(pf, a) = client.types[a]

\* the errors of a call on a closed page
UseAfterRelease == {"Cannot read closed page", "Cannot write closed page"}

\* C12: every method of a closed page handle (released and closed by the cache
\* check, or deleted) fails with a closed-page error and leaves the block
\* cache, the page cache and the page count, hence the free-list and the
\* chains, as they were.
C12_ClosedHandleFails ==
  \A h \in DOMAIN pf.closedPages, method \in PageMethods :
    ~pf.isClosed =>
      LET r == ClosedPageCall_(pf, h, method)
      IN  /\ r.err \in UseAfterRelease
          /\ r.blockCache = pf.blockCache
          /\ r.lru = pf.lru
          /\ r.pageCache = pf.pageCache
          /\ r.memoryPageCount = pf.memoryPageCount

\* no block of the store differs between s and r
SameBlocks(r, s) ==
  /\ r.memoryPageCount = s.memoryPageCount
  /\ \A a \in 0..(s.memoryPageCount - 1) :
       [View(r, a) EXCEPT !.dirty = FALSE] = [View(s, a) EXCEPT !.dirty = FALSE]

\* C13: getPage(addr) without a subtype fails when addr holds a data page, a
\* free-list node or a freed (Empty) page: it creates no handle and changes no
\* block.
C13_GetPageOnlyLiveEntry ==
  \A a \in Addrs :
    (~pf.isClosed /\ a < pf.memoryPageCount /\ View(pf, a).type < Entry) =>
      LET r == getPage_(pf, a, Null)
      IN  /\ ~Ok(r)
          /\ r.pageCache = pf.pageCache
          /\ SameBlocks(r, pf)

\* C14: getPage(addr, s) fails with the type-mismatch error whenever the entry
\* page stored at addr has a subtype other than s, cached or not.
C14_TypedGetPageMismatch ==
  \A a \in Addrs, t \in Subtypes :
    (/\ ~pf.isClosed
     /\ a < pf.memoryPageCount
     /\ View(pf, a).type >= Entry
     /\ View(pf, a).type # entryPageTypeToPageBlockType(t)) =>
      getPage_(pf, a, t).err = "Page type mismatch"

\* C15: a write p.write(x, o) that returns changes only the bytes o .. o + len(x) - 1
\* of p: every other byte p had reads the same afterwards, and every other
\* head page (root or entry) reads exactly what it read before.
C15_WriteFrame ==
  [][ (op'.name = "write" /\ ~op'.closed /\ Ok(pf')) =>
        LET p == op'.addr
            before == ReadHead_(pf, p)
            after == ReadHead_(pf', p)
        IN  /\ \A a \in Heads(pf) \ {p} : ReadHead_(pf', a) = ReadHead_(pf, a)
            /\ before.ok =>
                 /\ after.ok
                 /\ Len(after.bytes) >= Len(before.bytes)
                 /\ \A i \in 1..Len(before.bytes) :
                      (i <= op'.offset \/ i > op'.offset + Len(op'.content)) =>
                        after.bytes[i] = before.bytes[i] ]_vars

\* C16: the page a createPage() has just returned has no overflow chain and
\* reads all zero over its whole byteLength, whatever its address held before.
C16_CreatedPageIsBlank ==
  (op.name = "createPage" /\ Ok(pf)) =>
    LET a == pf.allocated[1].addr
        r == PageRead_(pf, a, 0, Null)
    IN  /\ View(pf, a).nextPage = 0
        /\ Ok(r)
        /\ r.ret = Zeros(DataContentLength)

\* the ranges asked of a read: from the start or from the second page, one
\* byte, more than a page, more than two pages
ReadStarts == {0, DataContentLength}
ReadLengths == {1, DataContentLength + 1, 2 * DataContentLength + 1}

\* C17: a read of a finite length that ends beyond p.byteLength fails with the
\* out-of-range error, and the failed read changes no block (no page
\* allocated, no link, content or counter changed).
C17_OutOfRangeRead ==
  \A h \in DOMAIN pf.pageCache, start \in ReadStarts, length \in ReadLengths :
    LET size == PageByteLength_(pf, h)
        r == PageRead_(pf, h, start, length)
    IN  (~pf.isClosed /\ Ok(size) /\ start + length > size.v) =>
          /\ r.err = "Out of range read"
          /\ SameBlocks(r, pf)

\* C18: createPage(s) with s below 0 or above MaxSubtype fails and leaves the
\* page count, every block (hence the free-list) and both caches as they were.
C18_RejectedCreateConsumesNothing ==
  \A t \in BadSubtypes :
    ~pf.isClosed =>
      LET r == createPage_(pf, t)
      IN  /\ ~Ok(r)
          /\ r.memoryPageCount = pf.memoryPageCount
          /\ SameBlocks(r, pf)
          /\ r.blockCache = pf.blockCache
          /\ r.lru = pf.lru
          /\ r.pageCache = pf.pageCache

\* C19: while at least one manager that obtained a page has not released it,
\* the handle is open and usable: the cache check closes it only after every
\* manager that obtained it has released it.
C19_SharedHandleStaysOpen ==
  \A a \in DOMAIN client.holders :
    client.holders[a] # {} =>
      /\ a \in DOMAIN pf.pageCache
      /\ ~pf.isClosed => PageRead_(pf, a, 0, 1).err \notin UseAfterRelease

\* a cache check has run (a save, a read, a write) after one manager released
\* a page another manager still holds, and the page is open
C19_Witness ==
  /\ op.name \in {"save", "read", "write"}
  /\ Ok(pf)
  /\ \E a \in client.shared :
       /\ client.holders[a] # {}
       /\ a \in DOMAIN pf.pageCache
       /\ Ok(PageRead_(pf, a, 0, 1))

\* the errors of a call on a closed store
ClosedErrors ==
  {"Cannot read closed file", "Cannot write closed file", "Cannot delete page on closed file"}

\* the store operations, on the store (the main manager) or through a manager
StoreCalls ==
  { OpFor(name, a, t, m) :
      name \in {"getRootPage", "getPage", "createPage", "deletePage", "save"},
      a \in {0} \cup Addrs, t \in {Null} \cup Subtypes \cup BadSubtypes, m \in Managers }

\* C20: once the store is closed, getRootPage, getPage, createPage, deletePage
\* and save, called on the store or through any manager, fail with a
\* closed-file error.
C20_ClosedStoreFails ==
  pf.isClosed => \A o \in StoreCalls : Apply_(pf, o).err \in ClosedErrors

\* a store that held pages was closed, and a call made through the second
\* manager afterwards has failed
C20_Witness ==
  /\ pf.isClosed
  /\ pf.memoryPageCount > 1
  /\ op.name \in {"getRootPage", "getPage", "createPage", "deletePage"}
  /\ op.manager = SecondManager
  /\ pf.err \in ClosedErrors

\* C21: close() is idempotent: close() called on an already closed store
\* returns without error and changes nothing.
C21_CloseIdempotent ==
  [][ (pf.isClosed /\ op'.name = "close" /\ ~op'.closed) =>
        (Ok(pf') /\ pf' = Call(pf)) ]_vars

\* C22: after p.write(bytes), p.read() with no arguments returns exactly bytes.
C22_WriteThenReadAll ==
  (op.name = "write" /\ ~op.closed /\ op.offset = 0 /\ Ok(pf)) =>
    LET r == PageRead_(pf, op.addr, 0, Null)
    IN  Ok(r) /\ r.ret = op.content

\* C24: in every saved state the host file is non-empty if and only if page 0
\* on disk is a Root page holding the configured pageSize; a fresh store saved
\* before any page was accessed leaves the file empty.
C24_RootIffNonEmpty ==
  /\ Len(pf.file) > 0 <=>
       (Len(pf.file) > 0 /\ pf.file[1].type = Root /\ pf.file[1].pageSize = PageSize)
  /\ (op.name = "save" /\ op.n = 1) => pf.file = << >>

\* a save that wrote the root and other pages to a file that was empty
C24_Witness ==
  /\ op.name = "save"
  /\ Ok(pf)
  /\ Len(pf.file) > 1
  /\ pf.file[1].type = Root
  /\ pf.file[1].pageSize = PageSize
  /\ \E a \in 2..Len(pf.file) : pf.file[a].type # Empty

\* the page of the chain of addr that holds the byte number rest (counted from
\* 1 at addr), and the capacity of the chain up to and including that page
RECURSIVE PageOfByte(_, _, _, _, _)
PageOfByte(s, addr, rest, size, fuel) ==
  LET length == contentLength(View(s, addr))
  IN  IF rest <= length \/ fuel = 0 \/ View(s, addr).nextPage = 0
        THEN [addr |-> addr, size |-> size + length]
      ELSE PageOfByte(s, View(s, addr).nextPage, rest - length, size + length, fuel - 1)

\* C26: after p.writeAndCleanup(content, offset) the page that received the
\* last written byte is the last page of p's chain: its nextPage is 0 and
\* p.byteLength is the capacity of the head and the data pages up to it.
C26_CleanupCutsChain ==
  (op.name = "writeAndCleanup" /\ ~op.closed /\ Ok(pf)) =>
    LET last == PageOfByte(pf, op.addr, op.offset + Len(op.content), 0, Fuel)
        b == PageByteLength_(pf, op.addr)
    IN  /\ View(pf, last.addr).nextPage = 0
        /\ Ok(b)
        /\ b.v = last.size

\* in how many roles the address a is: a live entry page, a data page of the
\* chain of a head (once per head), a free-list node linked from the root, an
\* address stored in a free-list slot (once per slot)
RoleCount(s, a) ==
  (IF View(s, a).type >= Entry THEN 1 ELSE 0)
  + (IF View(s, a).type = Data
       THEN Cardinality({ h \in Heads(s) : a \in Chain(s, h) }) ELSE 0)
  + (IF a \in NodeSet(s) THEN 1 ELSE 0)
  + Cardinality({ slot \in FreelistSlots(s) : SlotAddr(s, slot) = a })

\* C27: after any sequence of operations every address from 1 to
\* memoryPageCount - 1 is in exactly one role: a live entry page, a data page
\* of one overflow chain, a free-list node linked from the root, or an address
\* stored in one free-list slot; no page is leaked.
C27_EveryPageInOneRole ==
  \A a \in 1..(pf.memoryPageCount - 1) : RoleCount(pf, a) = 1

\* the tail of the free-list linked from the root (0: there is no node)
TailNode(s) == IF FreelistNodes(s) = << >> THEN 0 ELSE FreelistNodes(s)[Len(FreelistNodes(s))]

\* C28: when the allocator recycles an empty tail free-list node whose
\* predecessor is another free-list node, afterwards the predecessor has
\* nextPage = 0 (it is the new tail) and root.emptylistAddr is unchanged, so
\* the addresses stored in the remaining nodes stay allocatable.
C28_RecycledTailUnlinked ==
  [][ (/\ Len(FreelistNodes(pf)) >= 2
       /\ View(pf, TailNode(pf)).count = 0
       /\ op'.name = "createPage"
       /\ Ok(pf')) =>
        LET pred == FreelistNodes(pf)[Len(FreelistNodes(pf)) - 1]
        IN  /\ pf'.allocated[1].addr = TailNode(pf)
            /\ View(pf', pred).nextPage = 0
            /\ View(pf', 0).emptylistAddr = View(pf, 0).emptylistAddr
            /\ FreelistAddrs(pf') = FreelistAddrs(pf) ]_vars

\* C29: when an address is given back while the tail free-list node is full,
\* the address becomes a new free-list node linked in both directions: the old
\* tail's nextPage is the new address and the new node's prevPage is the old
\* tail's address.
C29_NewNodeLinkedBothWays ==
  [][ (/\ TailNode(pf) # 0
       /\ View(pf, TailNode(pf)).count = EmptylistCapacity
       /\ op'.name = "deletePage"
       /\ View(pf, op'.addr).nextPage = 0
       /\ Ok(pf')) =>
        /\ View(pf', op'.addr).type = Emptylist
        /\ View(pf', TailNode(pf)).nextPage = op'.addr
        /\ View(pf', op'.addr).prevPage = TailNode(pf) ]_vars

\* C30: the allocator never returns 0 and never returns the address of a page
\* that is live at that moment: the root, an entry page, a data page linked in
\* an overflow chain, or a free-list node still linked from the root.
C30_AllocatedNotLive ==
  \A i \in 1..Len(pf.allocated) :
    pf.allocated[i].addr # 0 /\ ~pf.allocated[i].live

\* the root header on disk stores a pageSize other than the configured one
PageSizeMismatch(file) ==
  Len(file) > 0 /\ file[1].type = Root /\ file[1].pageSize # PageSize

\* C25: opening a file whose root header stores a pageSize different from the
\* configured pageSize fails at open, so no page of that file is ever read or
\* modified under the wrong page size.
C25_MismatchFailsAtOpen ==
  PageSizeMismatch(pf.file) =>
    /\ op.name = "open" => ~Ok(pf)
    /\ op.name \in {"getPage", "read", "write", "deletePage"} => ~Ok(pf)
    /\ pf.file \in ForeignFiles

\* C23: every address the allocator returns fits in an unsigned 16-bit integer
\* (at most 65535), so an address written into a header field or a free-list
\* slot reads back as the same address, however many pages were created.
C23_AddressFitsUint16 ==
  \A i \in 1..Len(pf.allocated) :
    /\ pf.allocated[i].addr <= Uint16Max
    /\ Uint16(pf.allocated[i].addr) = pf.allocated[i].addr

\* following nextPage from addr comes back to an address already visited
RECURSIVE Cyclic(_, _, _)
Cyclic(s, addr, seen) ==
  IF addr = 0 THEN FALSE
  ELSE IF addr \in seen THEN TRUE
  ELSE Cyclic(s, View(s, addr).nextPage, seen \cup {addr})

\* C31: after any sequence of operations, following nextPage from any head
\* reaches 0 after finitely many steps (no overflow chain contains a cycle),
\* so byteLength, read without length and delete always terminate.
C31_ChainsTerminate ==
  /\ op.name # "hang"
  /\ \A h \in Heads(pf) : ~Cyclic(pf, View(pf, h).nextPage, {h})
  /\ \A h \in DOMAIN pf.pageCache :
        /\ byteLength_(pf, h).err # "Hang"
        /\ unsafeAccess_(pf, h, 0, Null).err # "Hang"

\* the store with nothing cached: its view is the host file
OnFile(s) == [s EXCEPT !.blockCache = << >>, !.lru = << >>]

\* C32: in the file as written by any save(), every page reached by following
\* nextPage from the root or from an entry page has kind Data, never Empty,
\* Free-list or Entry.
C32_SavedChainsAreData ==
  (op.name = "save" /\ Ok(pf)) =>
    \A h \in Heads(OnFile(pf)) : \A a \in Chain(OnFile(pf), h) :
      View(OnFile(pf), a).type = Data

\* the number of data pages in the overflow chain of the head h
DataCount(s, h) == Cardinality({ a \in Chain(s, h) : View(s, a).type = Data })

\* the least number of data pages whose capacity, with the head's, covers end bytes
Needed(s, h, end) ==
  IF end <= contentLength(View(s, h)) THEN 0
  ELSE (end - contentLength(View(s, h)) + DataContentLength - 1) \div DataContentLength

\* every address the free-list holds: its nodes and the addresses in their slots
Freed(s) == NodeSet(s) \cup FreelistAddrs(s)

\* C33: p.write(content, offset) without cleanup never frees or unlinks a page
\* and allocates exactly the missing data pages: afterwards the chain of p has
\* max(k, n) data pages, k the number before the call and n the least number
\* whose capacity, with the head's, covers offset + len(content).
C33_WriteAllocatesMissing ==
  [][ (op'.name = "write" /\ op'.n = op.n + 1 /\ Ok(pf')) =>
        LET h == op'.addr
            k == DataCount(pf, h)
            n == Needed(pf, h, op'.offset + op'.length)
        IN  /\ DataCount(pf', h) = IF k > n THEN k ELSE n
            /\ Chain(pf, h) \subseteq Chain(pf', h)
            /\ Freed(pf') \subseteq Freed(pf)
            /\ pf'.memoryPageCount - pf.memoryPageCount <= (IF k > n THEN 0 ELSE n - k)
    ]_vars

\* C34: allocate() increases memoryPageCount only when root.emptylistAddr is
\* 0; whenever a free-list chain exists the returned address comes from it
\* (a popped slot or the recycled empty tail node) and memoryPageCount is
\* unchanged.
C34_AllocatorPrefersFreelist ==
  LET a == getEmptyPageAddr_(pf)
  IN  Ok(a) =>
        IF View(pf, 0).emptylistAddr = 0
          THEN /\ a.v = pf.memoryPageCount
               /\ a.memoryPageCount = pf.memoryPageCount + 1
          ELSE /\ a.v \in Freed(pf)
               /\ a.memoryPageCount = pf.memoryPageCount

\* a createPage has just taken its address from the free-list
C34_Witness ==
  /\ op.name = "createPage"
  /\ Ok(pf)
  /\ Len(pf.allocated) = 1
  /\ pf.allocated[1].addr < pf.memoryPageCount - 1
  /\ View(pf, pf.allocated[1].addr).type >= Entry

\* C35: when save() returns, no cached block is dirty and, for every address
\* cached when save() started, the page in the host file equals the block's
\* bytes (a freed block is stored as an all-zero Empty page).
C35_SaveFlushesEveryBlock ==
  [][ (op'.name = "save" /\ op'.n = op.n + 1 /\ Ok(pf')) =>
        /\ \A a \in DOMAIN pf'.blockCache : ~pf'.blockCache[a].dirty
        /\ \A a \in DOMAIN pf.blockCache :
              /\ a + 1 <= Len(pf'.file)
              /\ pf'.file[a + 1] = [pf.blockCache[a] EXCEPT !.dirty = FALSE]
    ]_vars

\* a save has just written a data page and a freed page held in the free-list
C35_Witness ==
  /\ op.name = "save"
  /\ Ok(pf)
  /\ saved = pf.file
  /\ \E a \in 1..(Len(pf.file) - 1) : pf.file[a + 1].type = Data
  /\ \E b \in FreelistAddrs(OnFile(pf)) :
        b + 1 <= Len(pf.file) /\ pf.file[b + 1] = [EmptyPageBlock EXCEPT !.dirty = FALSE]

\* C36: immediately after a successful save(), filePageCount equals
\* memoryPageCount (size = unsavedSize) whenever at least one page has been
\* materialised: no allocated address is left without a page in the file.
C36_SaveLevelsCounts ==
  (op.name = "save" /\ Ok(pf) /\ (pf.filePageCount > 0 \/ pf.blockCache # << >>)) =>
    /\ pf.filePageCount = pf.memoryPageCount
    /\ PagedFileSize(pf) = PagedFileUnsavedSize(pf)

\* C37: in every reachable state memoryPageCount >= filePageCount and
\* memoryPageCount >= 1; at open filePageCount = fileSize / pageSize and
\* memoryPageCount = max(filePageCount, 1); save() never raises filePageCount
\* above memoryPageCount.
C37_CountsOrdered ==
  /\ pf.memoryPageCount >= pf.filePageCount
  /\ pf.memoryPageCount >= 1
  /\ op.name \in {"new", "open"} =>
        /\ pf.filePageCount = Len(pf.file)
        /\ pf.memoryPageCount = IF pf.filePageCount > 1 THEN pf.filePageCount ELSE 1

\* a store opened on a file of several pages that an earlier save has grown
C37_Witness ==
  /\ op.name = "open"
  /\ Len(saved) > 1
  /\ pf.file = saved
  /\ pf.filePageCount = Len(saved)

\* the calls that only read: they obtain a page, its bytes, its length
ReadOnlyCalls == {"getRootPage", "getPage", "read", "byteLength"}

\* C38: save() writes a page to the host file only if its cached block is
\* dirty: a block that was loaded from the file and only read since then
\* (read, byteLength, type) stays clean and is not rewritten.
C38_OnlyDirtyRewritten ==
  [][ /\ (op'.name = "save" /\ op'.n = op.n + 1) =>
            \A a \in 0..(Len(pf.file) - 1) :
              (a \notin DOMAIN pf.blockCache \/ ~pf.blockCache[a].dirty) =>
                pf'.file[a + 1] = pf.file[a + 1]
      /\ (op'.name \in ReadOnlyCalls /\ op'.n = op.n + 1) =>
            \A a \in DOMAIN pf'.blockCache :
              (a < pf.filePageCount /\ pf'.blockCache[a].dirty) =>
                (a \in DOMAIN pf.blockCache /\ pf.blockCache[a].dirty)
    ]_vars

\* C39: when save() returns, the block cache holds at most cacheSize blocks:
\* every block is clean after the flush, so the trim that follows can always
\* reach the limit.
C39_SaveTrimsCache ==
  (op.name = "save" /\ Ok(pf)) =>
    /\ Cardinality(DOMAIN pf.blockCache) <= pf.cacheSize
    /\ Len(pf.lru) <= pf.cacheSize

\* a save has just dropped blocks: the file holds more pages than the cache may
C39_Witness ==
  /\ op.name = "save"
  /\ Ok(pf)
  /\ pf.file = saved
  /\ Len(pf.file) > pf.cacheSize + 1
  /\ Cardinality(DOMAIN pf.blockCache) = pf.cacheSize

====
